---- MODULE Spec2Model ----
(***************************************************************************)
(* The moderation service of main.py: three HTTP handlers (submit_movie,   *)
(* get_movies, approve_movie) over two S3 buckets.  The handlers share no  *)
(* state but the buckets, and the hosting runtime (handler = Mangum(app))  *)
(* serves requests in separate invocations, so every request is one slot   *)
(* of Reqs whose handler advances one storage call at a time while the     *)
(* storage calls of the other requests interleave freely.                  *)
(*                                                                         *)
(* A storage call either takes effect and returns, or raises and leaves    *)
(* the store as it was.  get_object raises on an absent key;               *)
(* delete_object of an absent key succeeds.  The runtime may also stop an  *)
(* approve handler between two of its calls (ApproveCrash).                *)
(*                                                                         *)
(* Spec starts from empty buckets.  ListSpec runs one listing, with no      *)
(* writer beside it, on a store that earlier requests have filled, up to   *)
(* one object more than a single list_objects_v2 response holds.           *)
(*                                                                         *)
(* raised, prior, raced and arrival record history: they are read by the   *)
(* properties and never by the handlers.                                   *)
(***************************************************************************)
EXTENDS Integers, Sequences, FiniteSets, TLC

\* ---- bounds ------------------------------------------------------------
MaxIds  == 2     \* size of the identifier universe uuid4 draws from
MaxReqs == 3     \* number of requests made in one behaviour

\* an identifier is a one-element tuple, so that None is no identifier
Ids  == { <<i>> : i \in 1..MaxIds }
Reqs == 1..MaxReqs
None == <<>>

\* ---- data --------------------------------------------------------------
\* class Movie(BaseModel): title: str, year: int, genre: str
Movie == { [title |-> "Dune",  year |-> 1984, genre |-> "SciFi"],
           [title |-> "Alien", year |-> 1979, genre |-> "SciFi"] }

PENDING_BUCKET == "movies-stage"
FINAL_BUCKET   == "movies-final"

\* (variant: the key does not depend on the identifier)
Key_fixed(movie_id) == <<<<1>>, ".json">>

\* f'{movie_id}.json'
Key(movie_id) == <<movie_id, ".json">>
Keys == { Key(m) : m \in Ids }

\* movie.dict()
dict(movie) == movie

\* (variant: the fields are written in key order, as with sort_keys)
dumps_sorted(d) == <<"genre", d.genre, "title", d.title, "year", d.year>>

\* json.dumps(movie_data): the fields in declaration order, as text
dumps(d) == <<"title", d.title, "year", d.year, "genre", d.genre>>

\* json.loads(body.decode('utf-8'))
loads(b) == [title |-> b[2], year |-> b[4], genre |-> b[6]]

\* a key that holds no object
NoObj == <<>>
Bodies == { dumps(dict(mv)) : mv \in Movie }

VARIABLES
    s3,          \* bucket name -> (key -> body or NoObj)
    issued,      \* identifiers uuid4 has produced
    pc,          \* request -> position in its handler
    op,          \* request -> "none" | "submit" | "list" | "approve"
    movie_id,    \* request -> the handler's movie_id
    movie_data,  \* request -> the handler's movie_data (dict, or raw body)
    contents,    \* request -> response['Contents'] still to be fetched
    movies,      \* request -> the list get_movies has built
    resp,        \* request -> [status, body] returned to the client
    raised,      \* request -> the storage call that raised ("none" if none)
    prior,       \* request -> identifiers whose approve had returned 200
                 \*            when the request arrived
    raced,       \* identifiers that two approve calls have handled at once
    arrival      \* approve request -> whether its identifier was in pending
                 \*   and in final when it arrived, and whether no other
                 \*   approve of the identifier has been in flight with it

vars == <<s3, issued, pc, op, movie_id, movie_data, contents, movies,
          resp, raised, prior, raced, arrival>>

pending == s3[PENDING_BUCKET]
final   == s3[FINAL_BUCKET]

NoResp == [status |-> 0, body |-> <<>>]
NoArrival == [pending |-> FALSE, final |-> FALSE, alone |-> FALSE]

\* ---- the object store --------------------------------------------------
Has(store, Bucket, k) == store[Bucket][k] # NoObj

\* s3_client.put_object(Bucket, Key, Body)
put_object(store, Bucket, k, Body) == [store EXCEPT ![Bucket][k] = Body]

\* s3_client.delete_object(Bucket, Key): deleting an absent key succeeds
delete_object(store, Bucket, k) == [store EXCEPT ![Bucket][k] = NoObj]

\* s3_client.get_object(Bucket, Key)['Body'].read()
get_object(store, Bucket, k) == store[Bucket][k]

\* the keys of a bucket that hold an object, in key order: the key universe
\* of a bucket is Key(<<1>>) .. Key(<<n>>)
Enumerate(store, Bucket) ==
    LET n == Cardinality(DOMAIN store[Bucket])
        held(k) == k \in DOMAIN store[Bucket] /\ Has(store, Bucket, k)
    IN  SelectSeq([i \in 1..n |-> Key(<<i>>)], held)

\* list_objects_v2 is called with no MaxKeys: one response holds at most
\* this many keys
MaxKeys == 1000

\* s3_client.list_objects_v2(Bucket): response['Contents'] of the one call
\* made, the first page of the enumeration (empty when the response has no
\* 'Contents'); no ContinuationToken is followed
list_objects_v2(store, Bucket) ==
    LET all == Enumerate(store, Bucket)
    IN  IF Len(all) <= MaxKeys THEN all ELSE SubSeq(all, 1, MaxKeys)

\* (variant: any identifier, produced before or not)
uuid4_any(used) == Ids

\* str(uuid.uuid4()): an identifier not produced before
uuid4(used) == Ids \ used

\* identifiers whose approve has returned its success message
Approved == { movie_id[q] : q \in { r \in Reqs : op[r] = "approve"
                                        /\ resp[r].status = 200 } }

\* ---- the storage calls of the handlers ----------------------------------
\* (variant: the submission is written straight to the final bucket)
submit_put_final(store, id, data) ==
    put_object(store, FINAL_BUCKET, Key(id), dumps(data))

\* line 23: put_object(Bucket=PENDING_BUCKET, Key=f'{movie_id}.json',
\*                     Body=json.dumps(movie_data))
submit_put(store, id, data) ==
    put_object(store, PENDING_BUCKET, Key(id), dumps(data))

\* (variant: the fetch reads the final bucket)
approve_get_final(store, id) == get_object(store, FINAL_BUCKET, Key(id))

\* line 39: get_object(Bucket=PENDING_BUCKET, Key=f'{movie_id}.json')
approve_get(store, id) == get_object(store, PENDING_BUCKET, Key(id))

\* (variant: the copy is written back to the pending bucket)
approve_put_pending(store, id, body) ==
    put_object(store, PENDING_BUCKET, Key(id), body)

\* line 40: put_object(Bucket=FINAL_BUCKET, Key=f'{movie_id}.json', Body=...)
approve_put(store, id, body) == put_object(store, FINAL_BUCKET, Key(id), body)

\* (variant: the delete is sent to the final bucket)
approve_delete_final(store, id) == delete_object(store, FINAL_BUCKET, Key(id))

\* (variant: the pending copy is never deleted)
approve_delete_skipped(store, id) == store

\* line 41: delete_object(Bucket=PENDING_BUCKET, Key=f'{movie_id}.json')
approve_delete(store, id) == delete_object(store, PENDING_BUCKET, Key(id))

\* (variant: every handler answers a raised call with 400)
StatusOnRaise_400(handler) == 400

\* (variant: approve answers a raised call with 404)
StatusOnRaise_404(handler) == IF handler = "approve" THEN 404 ELSE 500

\* the status of the response when a storage call of the handler raises:
\* approve_movie wraps its three calls in try/except Exception -> 400;
\* the other handlers catch nothing
StatusOnRaise(handler) == IF handler = "approve" THEN 400 ELSE 500

\* ---- initial state ------------------------------------------------------
Init ==
    /\ s3 = [b \in {PENDING_BUCKET, FINAL_BUCKET} |-> [k \in Keys |-> NoObj]]
    /\ issued = {}
    /\ pc = [p \in Reqs |-> "idle"]
    /\ op = [p \in Reqs |-> "none"]
    /\ movie_id = [p \in Reqs |-> None]
    /\ movie_data = [p \in Reqs |-> NoObj]
    /\ contents = [p \in Reqs |-> <<>>]
    /\ movies = [p \in Reqs |-> <<>>]
    /\ resp = [p \in Reqs |-> NoResp]
    /\ raised = [p \in Reqs |-> "none"]
    /\ prior = [p \in Reqs |-> {}]
    /\ raced = {}
    /\ arrival = [p \in Reqs |-> NoArrival]

\* requests arrive in slot order
CanArrive(p) == pc[p] = "idle" /\ \A q \in 1..(p - 1) : pc[q] # "idle"

\* the handler of request p ends with the given response
Return(p, status, body, exc) ==
    /\ pc' = [pc EXCEPT ![p] = "done"]
    /\ resp' = [resp EXCEPT ![p] = [status |-> status, body |-> body]]
    /\ raised' = [raised EXCEPT ![p] = exc]

\* ---- POST /movies/ ------------------------------------------------------
\* lines 20-22: the request arrives; movie_id and movie_data are computed
SubmitArrive(p, movie) ==
    /\ CanArrive(p)
    /\ \E id \in uuid4(issued) :
          /\ movie_id' = [movie_id EXCEPT ![p] = id]
          /\ issued' = issued \cup {id}
    /\ movie_data' = [movie_data EXCEPT ![p] = dict(movie)]
    /\ op' = [op EXCEPT ![p] = "submit"]
    /\ pc' = [pc EXCEPT ![p] = "submit_put"]
    /\ prior' = [prior EXCEPT ![p] = Approved]
    /\ UNCHANGED <<s3, contents, movies, resp, raised, raced, arrival>>

\* lines 23-24: the write to pending, then the return
SubmitPut(p) ==
    /\ pc[p] = "submit_put"
    /\ \/ /\ s3' = submit_put(s3, movie_id[p], movie_data[p])
          /\ Return(p, 200, <<"Movie submitted for approval.", movie_id[p]>>,
                    "none")
       \/ /\ UNCHANGED s3
          /\ Return(p, StatusOnRaise("submit"), <<>>, "put_object")
    /\ UNCHANGED <<issued, op, movie_id, movie_data, contents, movies, prior,
                   raced, arrival>>

\* ---- GET /movies/ -------------------------------------------------------
ListArrive(p) ==
    /\ CanArrive(p)
    /\ op' = [op EXCEPT ![p] = "list"]
    /\ pc' = [pc EXCEPT ![p] = "list_objects"]
    /\ prior' = [prior EXCEPT ![p] = Approved]
    /\ UNCHANGED <<s3, issued, movie_id, movie_data, contents, movies, resp,
                   raised, raced, arrival>>

\* lines 28-30: the enumeration of final; with no 'Contents' the loop is
\* skipped and the empty list returned
ListObjects(p) ==
    /\ pc[p] = "list_objects"
    /\ \/ LET cs == list_objects_v2(s3, FINAL_BUCKET) IN
          IF cs = <<>>
          THEN /\ Return(p, 200, <<>>, "none")
               /\ UNCHANGED contents
          ELSE /\ contents' = [contents EXCEPT ![p] = cs]
               /\ pc' = [pc EXCEPT ![p] = "list_get"]
               /\ UNCHANGED <<resp, raised>>
       \/ /\ Return(p, StatusOnRaise("list"), <<>>, "list_objects_v2")
          /\ UNCHANGED contents
    /\ UNCHANGED <<s3, issued, op, movie_id, movie_data, movies, prior,
                   raced, arrival>>

\* lines 31-34: one turn of the loop; after the last one the list is returned
ListGet(p) ==
    /\ pc[p] = "list_get"
    /\ LET k == Head(contents[p])
           body == get_object(s3, FINAL_BUCKET, k) IN
       \/ /\ body # NoObj
          /\ LET ms == Append(movies[p], loads(body)) IN
             /\ movies' = [movies EXCEPT ![p] = ms]
             /\ contents' = [contents EXCEPT ![p] = Tail(contents[p])]
             /\ IF Tail(contents[p]) = <<>>
                THEN Return(p, 200, ms, "none")
                ELSE UNCHANGED <<pc, resp, raised>>
       \/ /\ Return(p, StatusOnRaise("list"), <<>>,
                    IF body = NoObj THEN "NoSuchKey" ELSE "get_object")
          /\ UNCHANGED <<movies, contents>>
    /\ UNCHANGED <<s3, issued, op, movie_id, movie_data, prior, raced,
                   arrival>>

\* ---- POST /approve_movie/{movie_id} -------------------------------------
\* request q is an approve of id that has arrived and not yet ended
InFlightApprove(q, id) ==
    /\ op[q] = "approve"
    /\ movie_id[q] = id
    /\ pc[q] \in {"approve_get", "approve_put", "approve_delete"}

ApproveArrive(p, id) ==
    /\ CanArrive(p)
    /\ op' = [op EXCEPT ![p] = "approve"]
    /\ movie_id' = [movie_id EXCEPT ![p] = id]
    /\ pc' = [pc EXCEPT ![p] = "approve_get"]
    /\ prior' = [prior EXCEPT ![p] = Approved]
    /\ raced' = IF \E q \in Reqs : InFlightApprove(q, id)
                THEN raced \cup {id} ELSE raced
    /\ arrival' =
          [q \in Reqs |->
              IF q = p
              THEN [pending |-> Has(s3, PENDING_BUCKET, Key(id)),
                    final   |-> Has(s3, FINAL_BUCKET, Key(id)),
                    alone   |-> ~\E r \in Reqs : InFlightApprove(r, id)]
              ELSE IF InFlightApprove(q, id)
                   THEN [arrival[q] EXCEPT !.alone = FALSE]
                   ELSE arrival[q]]
    /\ UNCHANGED <<s3, issued, movie_data, contents, movies, resp, raised>>

\* line 39: the fetch from pending; an absent object and a failed call both
\* raise, and line 44 maps either to 400
ApproveGet(p) ==
    /\ pc[p] = "approve_get"
    /\ LET body == approve_get(s3, movie_id[p]) IN
       \/ /\ body # NoObj
          /\ movie_data' = [movie_data EXCEPT ![p] = body]
          /\ pc' = [pc EXCEPT ![p] = "approve_put"]
          /\ UNCHANGED <<resp, raised>>
       \/ /\ Return(p, StatusOnRaise("approve"),
                    "Movie not found or already approved.",
                    IF body = NoObj THEN "NoSuchKey" ELSE "get_object")
          /\ UNCHANGED movie_data
    /\ UNCHANGED <<s3, issued, op, movie_id, contents, movies, prior,
                   raced, arrival>>

\* line 40: the write to final
ApprovePut(p) ==
    /\ pc[p] = "approve_put"
    /\ \/ /\ s3' = approve_put(s3, movie_id[p], movie_data[p])
          /\ pc' = [pc EXCEPT ![p] = "approve_delete"]
          /\ UNCHANGED <<resp, raised>>
       \/ /\ Return(p, StatusOnRaise("approve"),
                    "Movie not found or already approved.", "put_object")
          /\ UNCHANGED s3
    /\ UNCHANGED <<issued, op, movie_id, movie_data, contents, movies, prior,
                   raced, arrival>>

\* lines 41-42: the delete from pending, then the return
ApproveDelete(p) ==
    /\ pc[p] = "approve_delete"
    /\ \/ /\ s3' = approve_delete(s3, movie_id[p])
          /\ Return(p, 200, "Movie approved and moved to final bucket.",
                    "none")
       \/ /\ Return(p, StatusOnRaise("approve"),
                    "Movie not found or already approved.", "delete_object")
          /\ UNCHANGED s3
    /\ UNCHANGED <<issued, op, movie_id, movie_data, contents, movies, prior,
                   raced, arrival>>

\* the runtime stops the approve handler between two of its storage calls:
\* nothing is returned and nothing more is done
ApproveCrash(p) ==
    /\ pc[p] \in {"approve_put", "approve_delete"}
    /\ Return(p, 0, <<>>,
              IF pc[p] = "approve_put" THEN "crash@put" ELSE "crash@delete")
    /\ UNCHANGED <<s3, issued, op, movie_id, movie_data, contents, movies,
                   prior, raced, arrival>>

Next ==
    \E p \in Reqs :
       \/ \E movie \in Movie : SubmitArrive(p, movie)
       \/ SubmitPut(p)
       \/ ListArrive(p)
       \/ ListObjects(p)
       \/ ListGet(p)
       \/ \E id \in Ids : ApproveArrive(p, id)
       \/ ApproveGet(p)
       \/ ApprovePut(p)
       \/ ApproveDelete(p)
       \/ ApproveCrash(p)

Spec == Init /\ [][Next]_vars

\* ---- one listing of a store that earlier requests have filled -----------
\* the numbers of objects the final bucket holds when the listing starts
SeedSizes == {0, 1, 2, 3, MaxKeys, MaxKeys + 1}

\* the record submitted under the i-th identifier
SeedMovie(i) == CHOOSE mv \in Movie : (mv.title = "Dune") <=> (i % 2 = 1)

\* the store after n + 1 submits and the approval of the first n of them
SeedStore(n) ==
    LET ks == { Key(<<i>>) : i \in 1..(n + 1) } IN
    [b \in {PENDING_BUCKET, FINAL_BUCKET} |->
        [k \in ks |->
            IF (b = FINAL_BUCKET) <=> (k[1][1] <= n)
            THEN dumps(dict(SeedMovie(k[1][1])))
            ELSE NoObj]]

InitList ==
    /\ \E n \in SeedSizes :
          /\ s3 = SeedStore(n)
          /\ issued = { <<i>> : i \in 1..(n + 1) }
    /\ pc = [p \in Reqs |-> "idle"]
    /\ op = [p \in Reqs |-> "none"]
    /\ movie_id = [p \in Reqs |-> None]
    /\ movie_data = [p \in Reqs |-> NoObj]
    /\ contents = [p \in Reqs |-> <<>>]
    /\ movies = [p \in Reqs |-> <<>>]
    /\ resp = [p \in Reqs |-> NoResp]
    /\ raised = [p \in Reqs |-> "none"]
    /\ prior = [p \in Reqs |-> {}]
    /\ raced = {}
    /\ arrival = [p \in Reqs |-> NoArrival]

\* a single GET /movies/ request, and no writer beside it
NextList ==
    \/ ListArrive(1)
    \/ ListObjects(1)
    \/ ListGet(1)

ListSpec == InitList /\ [][NextList]_vars

\* ---- vocabulary of the properties ---------------------------------------
InPending(m) == Has(s3, PENDING_BUCKET, Key(m))
InFinal(m)   == Has(s3, FINAL_BUCKET, Key(m))
InBoth(m)    == InPending(m) /\ InFinal(m)

Submits(m)  == { p \in Reqs : op[p] = "submit" /\ movie_id[p] = m }
Approves(m) == { p \in Reqs : op[p] = "approve" /\ movie_id[p] = m }

\* the submits that have returned identifier m to their client
Returned(m) == { p \in Submits(m) : resp[p].status = 200 }

\* request p is an approve that wrote to final and did not delete from
\* pending: it stands between the two calls, or it ended at the delete
CopiedNotDeleted(p) ==
    /\ op[p] = "approve"
    /\ \/ pc[p] = "approve_delete"
       \/ pc[p] = "done" /\ raised[p] \in {"delete_object", "crash@delete"}

NotFoundMessage == "Movie not found or already approved."

\* ---- C1 -----------------------------------------------------------------
\* C1 (as claimed): in every reachable state an identifier has an object in
\* both containers only if two approve calls for it have run concurrently.
C1_BothOnlyAfterRace == \A m \in Ids : InBoth(m) => m \in raced

\* C1 (amended): in every reachable state an identifier has an object in
\* both containers only if some approve call for it has written it to final
\* and has not deleted it from pending: the call is between its write and
\* its delete, or it failed or was stopped at the delete.
C1_BothOnlyWhileCopiedNotDeleted ==
    \A m \in Ids :
        InBoth(m) => \E p \in Approves(m) : CopiedNotDeleted(p)

\* one approve alone, stopped before its delete, left the record in both
C1_Witness ==
    \E m \in Ids :
        /\ InBoth(m)
        /\ m \notin raced
        /\ \E p \in Approves(m) : pc[p] = "done" /\ raised[p] = "crash@delete"
        /\ \A p \in Reqs : pc[p] \in {"idle", "done"}

\* ---- C2 -----------------------------------------------------------------
\* C2: once submit has returned identifier m, and as long as no approve(m)
\* call has been made, no object keyed by m is in the final container,
\* whatever other requests have run.
C2_NotFinalBeforeApprove ==
    \A m \in Ids :
        (Returned(m) # {} /\ Approves(m) = {}) => ~InFinal(m)

\* m was submitted and never approved while another identifier went all
\* the way to final
C2_Witness ==
    \E m \in Ids, n \in Ids :
        /\ m # n
        /\ Returned(m) # {} /\ Approves(m) = {} /\ InPending(m)
        /\ InFinal(n) /\ \E q \in Approves(n) : resp[q].status = 200

C4_AbsentGives400 ==
    [][\A p \in Reqs :
          (pc[p] = "approve_get" /\ pc'[p] # "approve_get"
              /\ ~InPending(movie_id[p])) =>
             /\ pc'[p] = "done"
             /\ resp'[p] = [status |-> 400, body |-> NotFoundMessage]
             /\ s3' = s3]_vars

\* a never-submitted identifier was refused while another record sat in
\* final
C4_Witness ==
    \E p \in Reqs, q \in Reqs :
        /\ op[p] = "approve" /\ op[q] = "approve" /\ movie_id[p] # movie_id[q]
        /\ raised[p] = "NoSuchKey" /\ resp[p].status = 400
        /\ Submits(movie_id[p]) = {} /\ InFinal(movie_id[q])

\* ---- C5 -----------------------------------------------------------------
\* C5: a successful submit returns an identifier that no earlier submit
\* returned, puts one new object under that identifier's key into pending
\* (the key held nothing in either container), and leaves every other
\* object of both containers as it was.
C5_SubmitFreshAndFramed ==
    [][\A p \in Reqs :
          (pc[p] = "submit_put" /\ resp'[p].status = 200) =>
             LET m == movie_id[p] IN
             /\ resp'[p].body[2] = m
             /\ \A q \in Reqs \ {p} :
                   (op[q] = "submit" /\ resp[q].status = 200) =>
                      resp[q].body[2] # m
             /\ ~InPending(m) /\ ~InFinal(m)
             /\ s3'[PENDING_BUCKET][Key(m)] # NoObj
             /\ loads(s3'[PENDING_BUCKET][Key(m)]) = movie_data[p]
             /\ \A b \in DOMAIN s3, k \in Keys :
                   <<b, k>> # <<PENDING_BUCKET, Key(m)>> =>
                      s3'[b][k] = s3[b][k]]_vars

\* two submits have returned, each with its own object in pending
C5_Witness ==
    \E p \in Reqs, q \in Reqs :
        /\ p # q /\ op[p] = "submit" /\ op[q] = "submit"
        /\ resp[p].status = 200 /\ resp[q].status = 200
        /\ movie_id[p] # movie_id[q]
        /\ movie_data[p] # movie_data[q]
        /\ InPending(movie_id[p]) /\ InPending(movie_id[q])

\* ---- C6 -----------------------------------------------------------------
\* C6: in every reachable state an object in final under the key of id has
\* the very body that the submit which returned id wrote to pending, and
\* that body decodes to the submitted {title, year, genre} record.
C6_FinalHoldsSubmittedBody ==
    \A m \in Ids :
        InFinal(m) =>
           \E s \in Returned(m) :
              /\ get_object(s3, FINAL_BUCKET, Key(m)) = dumps(movie_data[s])
              /\ loads(get_object(s3, FINAL_BUCKET, Key(m))) = movie_data[s]

\* submit, approve, list: the listing returned the submitted record from a
\* store that holds two different records
C6_Witness ==
    \E m \in Approved, q \in Reqs, s \in Reqs :
        /\ s \in Returned(m)
        /\ op[q] = "list" /\ resp[q].status = 200
        /\ resp[q].body = <<movie_data[s]>>
        /\ ~InPending(m)

\* ---- C7 -----------------------------------------------------------------
\* C7: two approve calls for the same identifier can both return success,
\* and whenever two have, the identifier has its one object in final, with
\* the submitted body, and no object in pending.
C7_DoubleApproveHarmless ==
    \A m \in Ids : \A p \in Approves(m), q \in Approves(m) :
        (p # q /\ resp[p].status = 200 /\ resp[q].status = 200) =>
           /\ InFinal(m)
           /\ ~InPending(m)
           /\ \E s \in Returned(m) :
                 loads(get_object(s3, FINAL_BUCKET, Key(m))) = movie_data[s]
           /\ LET cs == list_objects_v2(s3, FINAL_BUCKET) IN
                 Cardinality({ i \in DOMAIN cs : cs[i] = Key(m) }) = 1

\* both of two racing approves of one identifier have returned success
C7_Witness ==
    \E m \in raced : \E p \in Approves(m), q \in Approves(m) :
        p # q /\ resp[p].status = 200 /\ resp[q].status = 200

\* ---- C8 -----------------------------------------------------------------
\* the objects a step may change: all but the given one stay as they were
OnlyChanges(b, k) ==
    \A c \in DOMAIN s3, j \in Keys :
        <<c, j>> # <<b, k>> => s3'[c][j] = s3[c][j]

\* the next storage call of a submit and that of an approve of another
\* identifier give the same store and the same fetch in either order
Commute(p, q) ==
    LET a      == movie_id[q]
        body   == movie_data[q]
        sub(t) == submit_put(t, movie_id[p], movie_data[p])
    IN  /\ approve_get(sub(s3), a) = approve_get(s3, a)
        /\ pc[q] = "approve_put" =>
              approve_put(sub(s3), a, body) = sub(approve_put(s3, a, body))
        /\ pc[q] = "approve_delete" =>
              approve_delete(sub(s3), a) = sub(approve_delete(s3, a))

\* C8: a submit and an approve of another identifier do not interact: every
\* step of approve(a) changes objects keyed by a only, submit changes only
\* the pending object of its own key, and wherever both have a storage call
\* to make, the two calls commute (same store, same fetch result), so any
\* interleaving equals either sequential order.
C8_SubmitApproveIndependent ==
    [][\A p \in Reqs :
          /\ (op[p] = "approve" /\ s3' # s3 /\ pc'[p] # pc[p]) =>
                \/ OnlyChanges(PENDING_BUCKET, Key(movie_id[p]))
                \/ OnlyChanges(FINAL_BUCKET, Key(movie_id[p]))
          /\ (pc[p] = "submit_put" /\ pc'[p] # pc[p]) =>
                OnlyChanges(PENDING_BUCKET, Key(movie_id[p]))
          /\ \A q \in Reqs :
                (pc[p] = "submit_put" /\ op[q] = "approve" /\ pc[q] # "done"
                    /\ movie_id[q] # movie_id[p]) => Commute(p, q)]_vars

\* approve(a) ran from arrival to success while a submit that had arrived
\* before it still had its write to make
C8_Witness ==
    \E p \in Reqs, q \in Reqs :
        /\ p < q
        /\ pc[p] = "submit_put"
        /\ op[q] = "approve" /\ resp[q].status = 200
        /\ movie_id[q] # movie_id[p]

\* ---- C9 -----------------------------------------------------------------
\* C9: a response has status 400 only when approve's fetch of the pending
\* object failed; every other failed storage call (approve's write to final,
\* its delete from pending, any call of submit or list) ends in a server
\* error, not 400.
C9_Only400OnFailedFetch ==
    \A p \in Reqs :
        /\ resp[p].status = 400 =>
              (op[p] = "approve" /\ raised[p] \in {"NoSuchKey", "get_object"})
        /\ (pc[p] = "done"
              /\ raised[p] \in {"put_object", "delete_object",
                                 "list_objects_v2"}) =>
              resp[p].status >= 500

\* ---- C10 ----------------------------------------------------------------
\* request p, an approve, ends at its delete without having deleted
EndsAtDelete(p) ==
    /\ op[p] = "approve"
    /\ pc[p] = "approve_delete" /\ pc'[p] = "done"
    /\ resp'[p].status # 200

\* no step but a successful delete of approve(m) takes m out of pending, and
\* no step at all takes it out of final or changes its body there
NoReconciliation ==
    \A m \in Ids :
        InBoth(m) =>
           /\ s3'[FINAL_BUCKET][Key(m)] = s3[FINAL_BUCKET][Key(m)]
           /\ \/ s3'[PENDING_BUCKET][Key(m)] = s3[PENDING_BUCKET][Key(m)]
              \/ \E q \in Approves(m) :
                    pc[q] = "approve_delete" /\ resp'[q].status = 200

\* C10 (as claimed): when approve(id) has written to final and then its
\* delete fails (or the handler is stopped before it), the record is left in
\* both containers with identical content, and nothing but an approve of id
\* changes that.
C10_PartialLeavesBoth ==
    [][/\ \A p \in Reqs :
             EndsAtDelete(p) =>
                /\ s3' = s3
                /\ InBoth(movie_id[p])
                /\ pending[Key(movie_id[p])] = final[Key(movie_id[p])]
       /\ NoReconciliation]_vars

\* C10 (amended): when approve(id) has written to final and then its delete
\* fails (or the handler is stopped before it), the record is left in final
\* with the fetched content and, unless another approve of id has deleted
\* the pending object and returned success, in pending too with identical
\* content; nothing but an approve of id changes that.
C10_PartialLeavesBothUnlessRaced ==
    [][/\ \A p \in Reqs :
             EndsAtDelete(p) =>
                LET m == movie_id[p] IN
                /\ s3' = s3
                /\ InFinal(m) /\ final[Key(m)] = movie_data[p]
                /\ \/ InPending(m) /\ pending[Key(m)] = final[Key(m)]
                   \/ /\ m \in raced
                      /\ \E q \in Approves(m) : q # p /\ resp[q].status = 200
       /\ NoReconciliation]_vars

\* an approve alone failed at its delete: the record sits in both
\* containers with one content and no request is left to change it
C10_Witness ==
    \E m \in Ids : \E p \in Approves(m) :
        /\ raised[p] = "delete_object" /\ resp[p].status = 400
        /\ m \notin raced
        /\ InBoth(m) /\ pending[Key(m)] = final[Key(m)]
        /\ \A q \in Reqs : pc[q] = "done"

\* ---- C11 ----------------------------------------------------------------
\* the deserialized body of every object of final, in enumeration order
FinalRecords ==
    LET ks == Enumerate(s3, FINAL_BUCKET) IN
    [i \in 1..Len(ks) |-> loads(get_object(s3, FINAL_BUCKET, ks[i]))]

\* what listing p returns, or is bound to return if none of its remaining
\* fetches raises: the records read so far, then those of the keys of its
\* response['Contents'] still to be read
ListResult(p) ==
    IF pc[p] = "done" THEN resp[p].body
    ELSE movies[p] \o [i \in 1..Len(contents[p]) |->
                         loads(get_object(s3, FINAL_BUCKET, contents[p][i]))]

\* C11: with no writer beside it, a listing that has enumerated final and
\* does not fail returns exactly one record per object of the final
\* container, the deserialized body of each in enumeration order, and
\* nothing from pending; on an empty final container it returns the empty
\* sequence.
C11_ListReturnsEveryFinalObject ==
    \A p \in Reqs :
        (op[p] = "list"
            /\ (pc[p] = "list_get" \/ resp[p].status = 200)) =>
           ListResult(p) = FinalRecords

\* ---- C12 ----------------------------------------------------------------
\* C12: once a submit has returned identifier m, m has an object in pending
\* or in final in every later state, whatever approves of m run, race, fail
\* or are stopped.
C12_NoRecordLost ==
    \A m \in Ids :
        Returned(m) # {} => (InPending(m) \/ InFinal(m))

\* two approves of m raced; one failed at its write or was stopped, the
\* other moved the record, which is now in final only
C12_Witness ==
    \E m \in raced :
        /\ Returned(m) # {}
        /\ InFinal(m) /\ ~InPending(m)
        /\ \E p \in Approves(m) :
              pc[p] = "done"
                 /\ raised[p] \in {"put_object", "crash@put", "crash@delete"}

\* ---- C13 ----------------------------------------------------------------
\* no storage call of request p failed for a reason other than the object
\* being absent, and the handler was not stopped
NoStorageFailure(p) == raised[p] \in {"none", "NoSuchKey"}

\* C13: take the approve calls of an identifier that arrived while it was
\* pending.  A call among them that ends with HTTP 400 because its fetch
\* found nothing has, from the state right after that fetch on, another
\* approve of the identifier that has deleted the pending object and
\* returned success; and once all of them have ended with no storage
\* failure, at least one approve of the identifier has returned success.
C13_RaceHasAWinner ==
    \A m \in Ids :
        LET A == { p \in Approves(m) : arrival[p].pending } IN
        /\ \A p \in A :
              (resp[p].status = 400 /\ NoStorageFailure(p)) =>
                 /\ raised[p] = "NoSuchKey"
                 /\ \E q \in Approves(m) \ {p} : resp[q].status = 200
        /\ (A # {} /\ \A p \in A : pc[p] = "done" /\ NoStorageFailure(p)) =>
              \E q \in Approves(m) : resp[q].status = 200

\* two approves arrived while m was pending and raced: one returned
\* success, the other fetched after the delete and got 400
C13_Witness ==
    \E m \in raced : \E p \in Approves(m), q \in Approves(m) :
        /\ arrival[p].pending /\ arrival[q].pending
        /\ ~arrival[p].alone /\ ~arrival[q].alone
        /\ resp[p].status = 200
        /\ resp[q].status = 400 /\ raised[q] = "NoSuchKey"

\* ---- C14 ----------------------------------------------------------------
\* C14: at the step where approve(id) returns its success message, id has
\* an object in final that carries the submitted body and has no object in
\* pending.
C14_SuccessMeansMoved ==
    [][\A p \in Reqs :
          (op[p] = "approve" /\ pc[p] # "done" /\ resp'[p].status = 200) =>
             LET k == Key(movie_id[p]) IN
             /\ resp'[p].body = "Movie approved and moved to final bucket."
             /\ s3'[PENDING_BUCKET][k] = NoObj
             /\ s3'[FINAL_BUCKET][k] # NoObj
             /\ \E s \in Returned(movie_id[p]) :
                   /\ s3'[FINAL_BUCKET][k] = dumps(movie_data[s])
                   /\ loads(s3'[FINAL_BUCKET][k]) = movie_data[s]]_vars

\* an approve has returned success while a racing approve of the same
\* identifier still has its write to final to make
C14_Witness ==
    \E m \in Approved : \E q \in Approves(m) :
        pc[q] = "approve_put" /\ ~InPending(m) /\ InFinal(m)

\* ---- C15 ----------------------------------------------------------------
\* id is in final only, with the body its submit wrote
Repaired(m) ==
    /\ InFinal(m) /\ ~InPending(m)
    /\ \E s \in Returned(m) :
          get_object(s3, FINAL_BUCKET, Key(m)) = dumps(movie_data[s])

\* C15: take an approve(id) that arrives when id is in both containers.  If
\* none of its three storage calls raises, it returns success and leaves id
\* in final only, with the submitted content; and if no other approve of id
\* is in flight beside it, then short of a storage failure none of its
\* calls does raise: its fetch finds the pending object.
C15_RetryRepairs ==
    \A m \in Ids : \A p \in Approves(m) :
        (arrival[p].pending /\ arrival[p].final /\ pc[p] = "done") =>
           /\ raised[p] = "none" =>
                 /\ resp[p] = [status |-> 200,
                       body |-> "Movie approved and moved to final bucket."]
                 /\ Repaired(m)
           /\ (arrival[p].alone /\ NoStorageFailure(p)) =>
                 raised[p] = "none"

\* an approve failed at its delete or was stopped before it, and a retry
\* that ran alone has returned success
C15_Witness ==
    \E m \in Ids : \E p \in Approves(m), q \in Approves(m) :
        /\ raised[q] \in {"delete_object", "crash@delete"}
        /\ arrival[p].pending /\ arrival[p].final /\ arrival[p].alone
        /\ resp[p].status = 200
        /\ InFinal(m) /\ ~InPending(m)

\* ---- C16 ----------------------------------------------------------------
\* C16: no step removes an object from final or changes the body under a
\* key that final already holds.
C16_FinalOnlyGrows ==
    [][\A k \in Keys :
          Has(s3, FINAL_BUCKET, k) =>
             get_object(s3', FINAL_BUCKET, k) = get_object(s3, FINAL_BUCKET, k)
      ]_vars

\* two racing approves of one identifier have both written it to final
C16_Witness ==
    \E m \in raced : \E p \in Approves(m), q \in Approves(m) :
        /\ p # q
        /\ pc[p] = "approve_delete" /\ pc[q] = "approve_delete"
        /\ InFinal(m)

\* ---- C17 ----------------------------------------------------------------
\* C17: no step of a listing changes either container, and when a fetch of
\* the listing raises, whatever it has read so far, the call ends in an
\* unhandled server error that carries none of the records.
C17_ListAllOrNothing ==
    [][\A p \in Reqs :
          (op[p] = "list" /\ pc'[p] # pc[p]) =>
             /\ s3' = s3
             /\ raised'[p] # "none" =>
                   /\ pc'[p] = "done"
                   /\ resp'[p] = [status |-> 500, body |-> <<>>]]_vars

\* a listing of several objects failed at a fetch after it had read some
C17_Witness ==
    \E p \in Reqs :
        /\ op[p] = "list" /\ pc[p] = "done"
        /\ raised[p] = "get_object" /\ resp[p].status = 500
        /\ Len(movies[p]) >= 2 /\ Len(contents[p]) >= 1
====
